---- MODULE Spec2Model ----
(***************************************************************************)
(* Model of lmfdb/hilbert_modular_forms/hilbert_field.py: decoding of the  *)
(* stored ideal strings, the N.k labeller (niceideals and the generator    *)
(* HilbertNumberField._iter_ideals), the label <-> ideal dictionaries      *)
(* built by HilbertNumberField.__init__, and the conjugation table built   *)
(* by conjideals.                                                          *)
(*                                                                         *)
(* The number field of the model is the totally real cubic field           *)
(* F = Q(w), w^3 + w^2 - 2w - 1 = 0 (discriminant 49).  7 = p7^3 ramifies, *)
(* 2 is inert, 13 splits into q13a, q13b, q13c (w = 7, 8, 10 mod 13).      *)
(* Gal(F/Q) is cyclic of order 3, generated by s : w |-> w^2 - 2.          *)
(*                                                                         *)
(* Python strings are sequences of character codes ("." = 46, "0" = 48),   *)
(* so that string comparison is the lexicographic order on sequences.      *)
(***************************************************************************)
EXTENDS Integers, Sequences, FiniteSets, TLC

VARIABLES
    ideals,      \* Fdata['ideals'] / the list handed to niceideals
    primes,      \* Fdata['primes']
    pc,          \* HilbertNumberField.__init__: "new", "built", "failed"
    ideal_dict,  \* self.ideal_dict : label -> ideal
    label_dict,  \* self.label_dict : ideal -> label
    gen,         \* the generator object returned by _iter_ideals
    out,         \* the dicts the generator has yielded so far
    npc,         \* niceideals: "none", "returned", "AssertionError"
    nideals,     \* the caller's list returned by niceideals
    called,      \* conjideals has been called on nideals
    auts,        \* the automorphism list of the last conjideals call
    arg,         \* the triples of nideals at entry of the last call
    emitted,     \* the assignments cideals[key] = value of the last call
    cideals,     \* the table returned by the last conjideals call
    auts0,       \* the automorphism list of the first conjideals call
    cideals0     \* the table returned by the first conjideals call

vars == <<ideals, primes, pc, ideal_dict, label_dict, gen, out,
          npc, nideals, called, auts, arg, emitted, cideals, auts0, cideals0>>

indexVars == <<pc, ideal_dict, label_dict, gen, out>>
conjVars == <<called, auts, arg, emitted, cideals, auts0, cideals0>>

(***************************************************************************)
(* Bounds of the model.                                                    *)
(***************************************************************************)
MaxLen == 3
MaxNumber == 3
MaxAuts == 2

(***************************************************************************)
(* Python values.                                                          *)
(***************************************************************************)
NoneNumber == 0 - 1
NoneLabel == << >>
None == "None"
EmptyDict == [x \in {} |-> 0]

SetItem(d, k, v) == [x \in (DOMAIN d) \cup {k} |-> IF x = k THEN v ELSE d[x]]

RECURSIVE Str(_)
Str(k) == IF k < 10 THEN <<48 + k>> ELSE Str(k \div 10) \o <<48 + (k % 10)>>

\* Lexicographic order of Python sequences (and of strings).
LexLess(a, b) ==
    LET m == IF Len(a) < Len(b) THEN Len(a) ELSE Len(b)
        d == {i \in 1..m : a[i] # b[i]}
    IN  IF d = {} THEN Len(a) < Len(b)
        ELSE LET i == CHOOSE x \in d : \A y \in d : x <= y IN a[i] < b[i]

(***************************************************************************)
(* The arithmetic layer (Sage): ideals of F, their norm, least positive    *)
(* integer, Hermite normal form (row-major) and the Galois action.         *)
(***************************************************************************)
\* The ideals of F that occur: "one" = (1), "two" = (2), "p7" = (7, w-2),
\* "q13a" = (13, w+6), "q13b" = (13, w+5), "q13c" = (13, w+3), "seven" = (7),
\* "thirteen" = (13).
Fideal(n, g) ==
    CASE n = 1 -> "one"
      [] n = 2 /\ g = "0" -> "two"
      [] n = 2 /\ g # "0" -> "one"
      [] n = 7 /\ g = "0" -> "seven"
      [] n = 7 /\ g \in {"w-2", "w+5"} -> "p7"
      [] n = 7 /\ g \in {"w+6", "w+3"} -> "one"
      [] n = 13 /\ g = "0" -> "thirteen"
      [] n = 13 /\ g = "w-2" -> "one"
      [] n = 13 /\ g = "w+6" -> "q13a"
      [] n = 13 /\ g = "w+5" -> "q13b"
      [] n = 13 /\ g = "w+3" -> "q13c"

idl_norm(I) ==
    CASE I = "one" -> 1
      [] I = "p7" -> 7
      [] I = "two" -> 8
      [] I \in {"q13a", "q13b", "q13c"} -> 13
      [] I = "seven" -> 343
      [] I = "thirteen" -> 2197

smallest_integer(I) ==
    CASE I = "one" -> 1
      [] I = "two" -> 2
      [] I \in {"p7", "seven"} -> 7
      [] I \in {"q13a", "q13b", "q13c", "thirteen"} -> 13

pari_hnf(I) ==
    CASE I = "one" -> <<1, 0, 0, 0, 1, 0, 0, 0, 1>>
      [] I = "two" -> <<2, 0, 0, 0, 2, 0, 0, 0, 2>>
      [] I = "p7" -> <<7, 5, 3, 0, 1, 0, 0, 0, 1>>
      [] I = "seven" -> <<7, 0, 0, 0, 7, 0, 0, 0, 7>>
      [] I = "q13a" -> <<13, 6, 3, 0, 1, 0, 0, 0, 1>>
      [] I = "q13b" -> <<13, 5, 1, 0, 1, 0, 0, 0, 1>>
      [] I = "q13c" -> <<13, 3, 4, 0, 1, 0, 0, 0, 1>>
      [] I = "thirteen" -> <<13, 0, 0, 0, 13, 0, 0, 0, 13>>

Sigma(I) ==
    CASE I = "q13a" -> "q13c"
      [] I = "q13c" -> "q13b"
      [] I = "q13b" -> "q13a"
      [] OTHER -> I

Auts == {"id", "s"}

Apply(g, I) ==
    CASE g = "id" -> I
      [] g = "s" -> Sigma(I)

(***************************************************************************)
(* Stored strings "[N,n,gen]", as the three tokens str2ideal splits off.   *)
(***************************************************************************)
ValidStrs ==
    { [N |-> 1, n |-> 1, gen |-> "0"],
      [N |-> 7, n |-> 7, gen |-> "w-2"],
      [N |-> 8, n |-> 2, gen |-> "0"],
      [N |-> 13, n |-> 13, gen |-> "w+6"],
      [N |-> 13, n |-> 13, gen |-> "w+5"],
      [N |-> 13, n |-> 13, gen |-> "w+3"] }

BadStrs ==
    { [N |-> 1, n |-> 7, gen |-> "w+6"],
      [N |-> 4, n |-> 2, gen |-> "0"] }

Strs == ValidStrs \cup BadStrs

ConjStrs == {s \in ValidStrs : s.N \in {1, 7, 13}}

SeqsUpTo(S, k) == UNION { [1..m -> S] : m \in 0..k }

PrimeLists ==
    { << >>,
      << [N |-> 7, n |-> 7, gen |-> "w-2"], [N |-> 13, n |-> 13, gen |-> "w+6"] >>,
      << [N |-> 7, n |-> 7, gen |-> "w+5"], [N |-> 7, n |-> 13, gen |-> "w+6"] >>,
      << [N |-> 13, n |-> 13, gen |-> "w+3"], [N |-> 13, n |-> 13, gen |-> "w+5"],
         [N |-> 13, n |-> 13, gen |-> "w+6"] >> }

str2ideal(s) == [N |-> s.N, n |-> s.n, idl |-> Fideal(s.n, s.gen)]

\* Mutant of AssertOk: the least positive integer is not compared.
AssertNormOnly(d) == idl_norm(d.idl) = d.N

AssertOk(d) == idl_norm(d.idl) = d.N /\ smallest_integer(d.idl) = d.n

(***************************************************************************)
(* The labeller shared by niceideals and _iter_ideals.                     *)
(***************************************************************************)
\* Mutant of NextRank: the rank is not reset when the norm changes.
NextRankNoReset(N, norm, ilabel) == ilabel

NextRank(N, norm, ilabel) == IF N # norm THEN 1 ELSE ilabel

\* Mutant of Advance: ilabel += 1 is missing.
AdvanceStuck(ilabel) == ilabel

Advance(ilabel) == ilabel + 1

label(N, ilabel) == Str(N) \o <<46>> \o Str(ilabel)

RECURSIVE niceloop(_, _, _, _, _)
niceloop(strs, i, ilabel, norm, acc) ==
    IF i > Len(strs) THEN [ok |-> TRUE, list |-> acc]
    ELSE LET d == str2ideal(strs[i])
             k == NextRank(d.N, norm, ilabel)
         IN  IF ~AssertOk(d) THEN [ok |-> FALSE, list |-> << >>]
             ELSE niceloop(strs, i + 1, Advance(k), d.N,
                           Append(acc, <<pari_hnf(d.idl), d.idl, label(d.N, k)>>))

niceideals(strs) == niceloop(strs, 1, 1, 0, << >>)

(***************************************************************************)
(* HilbertNumberField._iter_ideals as a generator object: a record of its  *)
(* locals and of where it is suspended ("created" before the first next(), *)
(* "yielded" at the yield, "stopped" after StopIteration or the end of the *)
(* list, "raised" after the AssertionError).                               *)
(***************************************************************************)
NoGen ==
    [primes |-> FALSE, number |-> NoneNumber, pos |-> 0, count |-> 0,
     ilabel |-> 1, norm |-> 0, state |-> "none"]

_iter_ideals(is_primes, number) ==
    [primes |-> is_primes, number |-> number, pos |-> 0, count |-> 0,
     ilabel |-> 1, norm |-> 0, state |-> "created"]

primes_iter(number) == _iter_ideals(TRUE, number)

ideals_iter(number) == _iter_ideals(FALSE, number)

LimitReached(count, number) == count = number

\* One next() on the generator g over the stored list: the new generator
\* and the dict it yields, if any.
GenNext(g, list) ==
    LET r == IF g.state = "yielded"
             THEN [g EXCEPT !.ilabel = Advance(@), !.count = @ + 1]
             ELSE g
    IN  IF g.state = "yielded" /\ LimitReached(r.count, r.number)
        THEN [gen |-> [r EXCEPT !.state = "stopped"], item |-> << >>]
        ELSE IF r.pos >= Len(list)
        THEN [gen |-> [r EXCEPT !.state = "stopped"], item |-> << >>]
        ELSE LET d == str2ideal(list[r.pos + 1])
                 k == NextRank(d.N, r.norm, r.ilabel)
             IN  IF ~AssertOk(d)
                 THEN [gen |-> [r EXCEPT !.state = "raised"], item |-> << >>]
                 ELSE [gen |-> [r EXCEPT !.pos = @ + 1, !.ilabel = k,
                                         !.norm = d.N, !.state = "yielded"],
                       item |-> << [label |-> label(d.N, k), ideal |-> d.idl] >>]

\* A for loop over the generator: every dict it yields, and how it ended.
RECURSIVE Drain(_, _, _)
Drain(g, list, acc) ==
    IF g.state \in {"stopped", "raised"} THEN [gen |-> g, out |-> acc]
    ELSE LET r == GenNext(g, list) IN Drain(r.gen, list, acc \o r.item)

\* The body of the for loop of __init__, over the yielded dicts.
RECURSIVE FillDicts(_, _, _, _)
FillDicts(items, i, idict, ldict) ==
    IF i > Len(items) THEN [ideal_dict |-> idict, label_dict |-> ldict]
    ELSE FillDicts(items, i + 1,
                   SetItem(idict, items[i].label, items[i].ideal),
                   SetItem(ldict, items[i].ideal, items[i].label))

ideal_label(idl) ==
    IF idl \in DOMAIN label_dict THEN label_dict[idl] ELSE NoneLabel

ideal(lab) ==
    IF lab \in DOMAIN ideal_dict THEN ideal_dict[lab] ELSE None

prime_label(idl) == ideal_label(idl)

prime(lab) == ideal(lab)

(***************************************************************************)
(* State machine of the index: construction, iteration, niceideals.        *)
(***************************************************************************)
InitConj ==
    /\ called = FALSE
    /\ auts = << >>
    /\ arg = << >>
    /\ emitted = << >>
    /\ cideals = EmptyDict
    /\ auts0 = << >>
    /\ cideals0 = EmptyDict

Init ==
    /\ ideals \in SeqsUpTo(Strs, MaxLen)
    /\ primes \in PrimeLists
    /\ pc = "new"
    /\ ideal_dict = EmptyDict
    /\ label_dict = EmptyDict
    /\ gen = NoGen
    /\ out = << >>
    /\ npc = "none"
    /\ nideals = << >>
    /\ InitConj

\* HilbertNumberField.__init__ (the database lookup and WebNumberField's
\* constructor are outside the model).
HilbertNumberField ==
    /\ pc = "new"
    /\ LET r == Drain(ideals_iter(NoneNumber), ideals, << >>)
           d == FillDicts(r.out, 1, EmptyDict, EmptyDict)
       IN  IF r.gen.state = "raised"
           THEN /\ pc' = "failed"
                /\ UNCHANGED <<ideal_dict, label_dict>>
           ELSE /\ pc' = "built"
                /\ ideal_dict' = d.ideal_dict
                /\ label_dict' = d.label_dict
    /\ UNCHANGED <<ideals, primes, gen, out, npc, nideals>>
    /\ UNCHANGED conjVars

CallIdealsIter ==
    /\ pc = "built"
    /\ \E number \in {NoneNumber} \cup (0..MaxNumber) :
          gen' = ideals_iter(number)
    /\ out' = << >>
    /\ UNCHANGED <<ideals, primes, pc, ideal_dict, label_dict, npc, nideals>>
    /\ UNCHANGED conjVars

CallPrimesIter ==
    /\ pc = "built"
    /\ \E number \in {NoneNumber} \cup (0..MaxNumber) :
          gen' = primes_iter(number)
    /\ out' = << >>
    /\ UNCHANGED <<ideals, primes, pc, ideal_dict, label_dict, npc, nideals>>
    /\ UNCHANGED conjVars

GenList == IF gen.primes THEN primes ELSE ideals

CallNext ==
    /\ gen.state \in {"created", "yielded"}
    /\ LET r == GenNext(gen, GenList)
       IN  /\ gen' = r.gen
           /\ out' = out \o r.item
    /\ UNCHANGED <<ideals, primes, pc, ideal_dict, label_dict, npc, nideals>>
    /\ UNCHANGED conjVars

CallNiceideals ==
    /\ npc = "none"
    /\ LET r == niceideals(ideals)
       IN  /\ npc' = IF r.ok THEN "returned" ELSE "AssertionError"
           /\ nideals' = r.list
    /\ UNCHANGED <<ideals, primes>>
    /\ UNCHANGED indexVars
    /\ UNCHANGED conjVars

Next ==
    \/ HilbertNumberField
    \/ CallIdealsIter
    \/ CallPrimesIter
    \/ CallNext
    \/ CallNiceideals

Spec == Init /\ [][Next]_vars

(***************************************************************************)
(* conjideals.  The triples [hnf, idl, label] of the caller's list are     *)
(* objects: copy(ideals) copies the list, not the triples, so the lists    *)
(* ideals and gideals of the code are sequences of references (positions   *)
(* in the caller's list) into one heap of triples.                         *)
(***************************************************************************)
\* Python's order on the lists [hnf, idl, label]: the first component that
\* differs decides; Sage compares number field ideals by their HNF.
TripleLess(a, b) ==
    IF a[1] # b[1] THEN LexLess(a[1], b[1])
    ELSE IF a[2] # b[2] THEN LexLess(pari_hnf(a[2]), pari_hnf(b[2]))
    ELSE LexLess(a[3], b[3])

\* list.sort() on a list of references: stable insertion.
RECURSIVE InsertRef(_, _, _)
InsertRef(heap, sorted, r) ==
    IF sorted = << >> THEN <<r>>
    ELSE LET last == sorted[Len(sorted)]
         IN  IF TripleLess(heap[r], heap[last])
             THEN Append(InsertRef(heap, SubSeq(sorted, 1, Len(sorted) - 1), r), last)
             ELSE Append(sorted, r)

RECURSIVE SortFrom(_, _, _, _)
SortFrom(heap, refs, i, sorted) ==
    IF i > Len(refs) THEN sorted
    ELSE SortFrom(heap, refs, i + 1, InsertRef(heap, sorted, refs[i]))

\* Mutant of sort: the list is left in the order it has.
sortSkipped(heap, refs) == refs

sort(heap, refs) == SortFrom(heap, refs, 1, << >>)

\* Mutant of Conjugate: the ideal of the triple is conjugated in place too.
ConjugateInPlace(I, g) == <<pari_hnf(Apply(g, I[2])), Apply(g, I[2]), I[3]>>

\* I[0] = g(I[1]).pari_hnf().python()
Conjugate(I, g) == <<pari_hnf(Apply(g, I[2])), I[2], I[3]>>

\* Mutants of EmitPair: key and value exchanged; the index left out of the key.
EmitPairSwapped(I, J, ig) == << <<I[3], ig>>, J[3] >>

EmitPairNoIndex(I, J, ig) == << <<J[3], 0>>, I[3] >>

\* cideals[(J[2],ig)] = I[2]
EmitPair(I, J, ig) == << <<J[3], ig>>, I[3] >>

RECURSIVE zip(_, _, _, _, _, _)
zip(heap, irefs, grefs, ig, j, acc) ==
    IF j > Len(irefs) THEN acc
    ELSE zip(heap, irefs, grefs, ig, j + 1,
             Append(acc, EmitPair(heap[irefs[j]], heap[grefs[j]], ig)))

RECURSIVE StoreAll(_, _, _)
StoreAll(pairs, i, d) ==
    IF i > Len(pairs) THEN d
    ELSE StoreAll(pairs, i + 1, SetItem(d, pairs[i][1], pairs[i][2]))

\* for ig,g in enumerate(auts): ig is the 0-based index, auts[ig + 1] in TLA+.
RECURSIVE autloop(_, _, _, _, _)
autloop(heap, irefs, gs, ig, acc) ==
    IF ig >= Len(gs) THEN [heap |-> heap, emitted |-> acc]
    ELSE LET h == [j \in DOMAIN heap |-> Conjugate(heap[j], gs[ig + 1])]
             grefs == sort(h, irefs)
         IN  autloop(h, irefs, gs, ig + 1, zip(h, irefs, grefs, ig, 1, acc))

conjideals(list, gs) ==
    LET irefs == sort(list, [j \in 1..Len(list) |-> j])
        r == autloop(list, irefs, gs, 0, << >>)
    IN  [cideals |-> StoreAll(r.emitted, 1, EmptyDict),
         emitted |-> r.emitted,
         list |-> r.heap]

(***************************************************************************)
(* State machine of the conjugation table: niceideals once, then any       *)
(* number of conjideals calls on the list it returned.                     *)
(***************************************************************************)
InitC ==
    /\ ideals \in SeqsUpTo(ConjStrs, MaxLen)
    /\ primes = << >>
    /\ pc = "new"
    /\ ideal_dict = EmptyDict
    /\ label_dict = EmptyDict
    /\ gen = NoGen
    /\ out = << >>
    /\ npc = "none"
    /\ nideals = << >>
    /\ InitConj

Conjideals ==
    /\ npc = "returned"
    /\ \E gs \in SeqsUpTo(Auts, MaxAuts) :
          \E r \in {conjideals(nideals, gs)} :
              /\ called' = TRUE
              /\ auts' = gs
              /\ arg' = nideals
              /\ emitted' = r.emitted
              /\ cideals' = r.cideals
              /\ nideals' = r.list
    /\ UNCHANGED <<ideals, primes, npc>>
    /\ UNCHANGED indexVars

CallConjideals ==
    /\ Conjideals
    /\ UNCHANGED <<auts0, cideals0>>

NextC ==
    \/ CallNiceideals
    \/ CallConjideals

SpecC == InitC /\ [][NextC]_vars

\* The same calls, with the first call's arguments and result remembered.
CallConjidealsFirst ==
    /\ ~called
    /\ Conjideals
    /\ auts0' = auts'
    /\ cideals0' = cideals'

CallConjidealsAgain ==
    /\ called
    /\ Conjideals
    /\ UNCHANGED <<auts0, cideals0>>

NextR ==
    \/ CallNiceideals
    \/ CallConjidealsFirst
    \/ CallConjidealsAgain

SpecR == InitC /\ [][NextR]_vars

(***************************************************************************)
(* Properties of the labeller and of the index (specification Spec).       *)
(***************************************************************************)
\* The stored list is grouped by ascending norm.
Ascending(list) ==
    \A p, q \in 1..Len(list) : p < q => list[p].N <= list[q].N

\* Reading a label "N.k" back: the digits before and after the dot.
RECURSIVE Num(_)
Num(digits) ==
    IF digits = << >> THEN 0
    ELSE 10 * Num(SubSeq(digits, 1, Len(digits) - 1)) + (digits[Len(digits)] - 48)

DotAt(lab) == CHOOSE i \in 1..Len(lab) : lab[i] = 46

NormPart(lab) == Num(SubSeq(lab, 1, DotAt(lab) - 1))

RankPart(lab) == Num(SubSeq(lab, DotAt(lab) + 1, Len(lab)))

\* labs are the labels given to the first Len(labs) entries of list: they
\* are pairwise distinct, carry the entry's norm, and the rank of the p-th
\* entry is its position among the entries of its norm.
LabelsOk(list, labs) ==
    /\ \A p, q \in 1..Len(labs) : p # q => labs[p] # labs[q]
    /\ \A p \in 1..Len(labs) :
          /\ Cardinality({i \in 1..Len(labs[p]) : labs[p][i] = 46}) = 1
          /\ NormPart(labs[p]) = list[p].N
          /\ RankPart(labs[p]) = Cardinality({q \in 1..p : list[q].N = list[p].N})

\* C1: for a list grouped by ascending norm, the labels assigned by the
\* generator _iter_ideals and by niceideals are pairwise distinct, and within
\* each norm the ranks are 1, 2, ..., m in input order.
C1_Labels ==
    /\ Ascending(GenList) => LabelsOk(GenList, [p \in 1..Len(out) |-> out[p].label])
    /\ (npc = "returned" /\ Ascending(ideals))
          => /\ Len(nideals) = Len(ideals)
             /\ LabelsOk(ideals, [p \in 1..Len(nideals) |-> nideals[p][3]])

C1_Witness ==
    /\ Ascending(ideals)
    /\ ~gen.primes
    /\ Len(out) >= 3
    /\ npc = "returned"
    /\ \E p, q \in 1..Len(ideals) : p < q /\ ideals[p].N = ideals[q].N
    /\ \E p, q \in 1..Len(ideals) : ideals[p].N < ideals[q].N

\* C2: after construction from a list grouped by ascending norm, every ideal
\* of the general-ideal list is found again under its own label:
\* ideal(ideal_label(I)) = I.
C2_RoundTrip ==
    (pc = "built" /\ Ascending(ideals))
       => \A p \in 1..Len(ideals) :
             LET I == Fideal(ideals[p].n, ideals[p].gen)
             IN  ideal(ideal_label(I)) = I

C2_Witness ==
    /\ pc = "built"
    /\ Ascending(ideals)
    /\ Len(ideals) >= 3
    /\ \E p, q \in 1..Len(ideals) :
          /\ ideals[p].N = ideals[q].N
          /\ Fideal(ideals[p].n, ideals[p].gen) # Fideal(ideals[q].n, ideals[q].gen)

\* A stored string whose N or n is not the norm or the least positive
\* integer of the ideal it decodes to.
Faulty(s) ==
    LET I == Fideal(s.n, s.gen)
    IN  idl_norm(I) # s.N \/ smallest_integer(I) # s.n

HasFault(list) == \E p \in 1..Len(list) : Faulty(list[p])

\* The dicts of the unlimited iteration over the generator's list.
Unlimited == Drain(_iter_ideals(gen.primes, NoneNumber), GenList, << >>).out

Minimum(a, b) == IF a < b THEN a ELSE b

\* C6 (as claimed): over a list of n valid entries, ideals_iter(k) and
\* primes_iter(k) yield exactly the first min(k, n) dicts of the unlimited
\* iteration and then stop, for every k >= 0; without a limit they yield all n.
C6_Limit ==
    (gen.state = "stopped" /\ ~HasFault(GenList))
       => out = IF gen.number = NoneNumber THEN Unlimited
                ELSE SubSeq(Unlimited, 1, Minimum(gen.number, Len(GenList)))

\* C7 (as claimed): a faulty entry in the general-ideal list or in the prime
\* list makes the construction fail.
C7_AnyFault ==
    (pc # "new" /\ (HasFault(ideals) \/ HasFault(primes))) => pc = "failed"

\* C7 (amended): a faulty entry in the general-ideal list makes the
\* construction fail, and no index is produced; the prime list is not decoded
\* by the construction.
C7_IdealsFault ==
    (pc # "new" /\ HasFault(ideals))
       => /\ pc = "failed"
          /\ ideal_dict = EmptyDict
          /\ label_dict = EmptyDict

C7_Witness ==
    /\ pc = "failed"
    /\ Len(ideals) >= 2
    /\ ~Faulty(ideals[1])
    /\ Faulty(ideals[Len(ideals)])

(***************************************************************************)
(* Properties of conjideals (specifications SpecC and SpecR).  A triple t  *)
(* is <<canonical form, ideal, label>>: t[1], t[2], t[3].                  *)
(***************************************************************************)
\* Every triple carries the canonical form of its own ideal.
WellFormed(list) ==
    \A j \in 1..Len(list) : list[j][1] = pari_hnf(list[j][2])

DistinctForms(list) ==
    \A i, j \in 1..Len(list) : i # j => list[i][1] # list[j][1]

DistinctLabels(list) ==
    \A i, j \in 1..Len(list) : i # j => list[i][3] # list[j][3]

Closed(list, gs) ==
    \A i \in 1..Len(gs) : \A j \in 1..Len(list) :
        \E m \in 1..Len(list) : list[m][2] = Apply(gs[i], list[j][2])

Moves(g, list) == \E j \in 1..Len(list) : Apply(g, list[j][2]) # list[j][2]

\* C3: on a labelled list (labels identify the entries) with pairwise
\* distinct canonical forms that is closed under the automorphisms, the
\* table maps (L, i) to the label of g_i(ideal labelled L), for every i.
C3_Image ==
    (called /\ WellFormed(arg) /\ DistinctForms(arg) /\ DistinctLabels(arg)
            /\ Closed(arg, auts))
       => \A i \in 1..Len(auts) : \A j \in 1..Len(arg) :
             \E m \in 1..Len(arg) :
                /\ arg[m][2] = Apply(auts[i], arg[j][2])
                /\ <<arg[j][3], i - 1>> \in DOMAIN cideals
                /\ cideals[<<arg[j][3], i - 1>>] = arg[m][3]

C3_Witness ==
    /\ called /\ WellFormed(arg) /\ DistinctForms(arg) /\ DistinctLabels(arg)
    /\ Closed(arg, auts)
    /\ Len(auts) = 2
    /\ auts[2] = "s"
    /\ Moves("s", arg)

\* C4: an identity automorphism at index i gives table[(L, i)] = L for every
\* label L of the ideal list, whatever automorphisms come before or after it.
C4_Identity ==
    (called /\ WellFormed(arg))
       => \A i \in 1..Len(auts) :
             auts[i] = "id"
                => \A j \in 1..Len(arg) :
                      /\ <<arg[j][3], i - 1>> \in DOMAIN cideals
                      /\ cideals[<<arg[j][3], i - 1>>] = arg[j][3]

C4_Witness ==
    /\ called /\ WellFormed(arg)
    /\ auts = <<"s", "id">>
    /\ Moves("s", arg)

\* C5: for n entries with pairwise distinct labels and k automorphisms the
\* keys of the table are exactly the pairs (L, i), 0 <= i < k, and there are
\* k * n of them.
C5_Keys ==
    (called /\ DistinctLabels(arg))
       => /\ DOMAIN cideals =
                {<<arg[j][3], i>> : j \in 1..Len(arg), i \in 0..(Len(auts) - 1)}
          /\ Cardinality(DOMAIN cideals) = Len(auts) * Len(arg)

C5_Witness ==
    /\ called /\ DistinctLabels(arg)
    /\ Len(auts) = 2
    /\ Len(arg) = 3

\* C8 (as claimed): conjideals leaves the caller's list as it was.
C8_Frame == called => nideals = arg

\* The list sorted as Python sorts the triples: by canonical form, equal
\* forms by label.
Sorted(list) ==
    LET f == CHOOSE x \in Permutations(1..Len(list)) :
                 \A a, b \in 1..Len(list) :
                     a < b => ~TripleLess(list[x[b]], list[x[a]])
    IN  [j \in 1..Len(list) |-> list[f[j]]]

\* The entries with the canonical form of their image under g.
Images(list, g) ==
    [j \in 1..Len(list) |-> <<pari_hnf(Apply(g, list[j][2])), list[j][2], list[j][3]>>]

\* C9 (as claimed): with ref the list sorted by canonical form and img_i the
\* entries sorted by the canonical form of their image under g_i, position j
\* emits key (ref[j].label, i) with value img_i[j].label.
C9_RefToImg ==
    called
       => \A i \in 1..Len(auts) : \A j \in 1..Len(arg) :
             emitted[(i - 1) * Len(arg) + j] =
                << <<Sorted(arg)[j][3], i - 1>>, Sorted(Images(arg, auts[i]))[j][3] >>

\* C9 (amended): position j emits key (img_i[j].label, i) with value
\* ref[j].label.
C9_ImgToRef ==
    called
       => /\ Len(emitted) = Len(auts) * Len(arg)
          /\ \A i \in 1..Len(auts) : \A j \in 1..Len(arg) :
                emitted[(i - 1) * Len(arg) + j] =
                   << <<Sorted(Images(arg, auts[i]))[j][3], i - 1>>, Sorted(arg)[j][3] >>

C9_Witness ==
    /\ called /\ WellFormed(arg)
    /\ Len(arg) = 3
    /\ Sorted(arg) # arg
    /\ \E i \in 1..Len(auts) :
          /\ auts[i] = "s"
          /\ Sorted(Images(arg, "s")) # Sorted(arg)

\* C10 (as claimed): a later call with the list object and the automorphism
\* list of the first call returns the table the first call returned.
C10_Repeat == (called /\ auts = auts0) => cideals = cideals0

====
